---- MODULE Spec2Model ----
(***************************************************************************)
(* A model of the AT24C256 EEPROM driver (class AT24C256<safe_mode>):      *)
(*   - the device handle life cycle (constructor, move constructor, move   *)
(*     assignment, destructor) over the I2C bus registrations;             *)
(*   - the byte-level transfer engine (write, write_page, read) and the    *)
(*     range overloads, over a model of the EEPROM's memory array.         *)
(* The implementation modelled is the part of src/examples/main.cpp from   *)
(* line 119 on (the class's .cpp) and the class template of                *)
(* src/unnamed/part_001 (its .hpp).                                        *)
(***************************************************************************)
EXTENDS Integers, Sequences, FiniteSets, TLC

(***************************************************************************)
(* Program constants.                                                      *)
(***************************************************************************)
PAGE_COUNT == 512
PAGE_SIZE == 64
MEMORY_SIZE == PAGE_COUNT * PAGE_SIZE

\* nullptr, the value of a moved-from _dev_handle
NULL == 0

(***************************************************************************)
(* Bounds of the model.                                                    *)
(***************************************************************************)
\* object slots in which a handle can be constructed
NHandles == 3
\* registrations the bus hands out over one run
MaxRegs == 2
\* operations a transfer run calls, one after the other
MaxOps == 2

Handles == 1..NHandles
Regs == 1..MaxRegs
\* physical I2C addresses given to the constructor
DevAddrSet == {80, 81}

(***************************************************************************)
(* Fixed-width integer arithmetic of the C++ code.                         *)
(***************************************************************************)
U16(x) == x % 65536
U8(x) == x % 256
\* x >> 6 on an int (arithmetic shift: floor division, also when x < 0)
Shr6(x) == x \div 64
\* x << 6 on an int
Shl6(x) == x * 64
Min(a, b) == IF a < b THEN a ELSE b

VARIABLES
    \* ---- handle life cycle --------------------------------------------
    live,          \* live[h]: an object exists in slot h
    h_address,     \* _address of the object in slot h
    h_dev_handle,  \* _dev_handle of the object in slot h (NULL or a registration)
    registered,    \* registrations currently on the bus
    rmCalls,       \* rmCalls[r]: i2c_master_bus_rm_device calls made on r
    nextReg,       \* next registration the bus hands out
    aborted,       \* ESP_ERROR_CHECK failed: the program has aborted
    movedFrom,     \* slots whose object was moved from and not assigned since
    lastLife,      \* the last life cycle operation and what it saw
    \* ---- transfer engine ----------------------------------------------
    safe_mode,     \* the template parameter of the handle in use
    mem,           \* the EEPROM cells written so far (address -> byte)
    pc,            \* "idle", "loop" (inside write's for loop), "done"
    op,            \* the operation in progress or just finished
    loopv,         \* the locals of write's loop
    result,        \* the value returned: TRUE/FALSE, or a byte, or "nullopt"
    err,           \* the error the operation logged ("" when none)
    rbuf,          \* the destination buffer of the last read
    trace,         \* bus transactions and delays of the operation, in order
    opMem,         \* mem when the operation was called
    lastWrite,     \* the last completed write operation and its result
    ops,           \* operations called so far
    lastEvent,     \* the last bus event before the operation was called
    \* ---- two callers sharing the handle ---------------------------------
    conc,          \* conc[c]: the write of caller c (pc, op, locals, result)
    order,         \* the callers in the order in which they called write
    overlap        \* a caller has run while the other's write was in progress

lifeVars == <<live, h_address, h_dev_handle, registered, rmCalls, nextReg,
              aborted, movedFrom, lastLife>>
concVars == <<conc, order, overlap>>
xferVars == <<safe_mode, mem, pc, op, loopv, result, err, rbuf, trace, opMem,
              lastWrite, ops, lastEvent, conc, order, overlap>>
vars == <<live, h_address, h_dev_handle, registered, rmCalls, nextReg,
          aborted, movedFrom, lastLife,
          safe_mode, mem, pc, op, loopv, result, err, rbuf, trace, opMem,
          lastWrite, ops, lastEvent, conc, order, overlap>>

NoLife == [kind |-> "none", d |-> 0, s |-> 0, sHandle |-> NULL, sAddr |-> 0,
           wasMoved |-> FALSE, rm |-> NULL]
NoOp == [kind |-> "none", address |-> 0, size |-> 0, seed |-> 0, blen |-> 0,
         garbage |-> 0, count |-> 0, elem |-> 1]
\* the two callers of the concurrent scenario, and a caller that has not called
Callers == {"A", "B"}
NoCall == [pc |-> "idle", op |-> NoOp, l |-> [i |-> 0, page_count |-> 0,
           start_page |-> 0, remaining_size |-> 0, current_addr |-> 0,
           current_buffer |-> 0], ok |-> FALSE]
NoLoop == [i |-> 0, page_count |-> 0, start_page |-> 0, remaining_size |-> 0,
           current_addr |-> 0, current_buffer |-> 0]

(***************************************************************************)
(* The handle life cycle.                                                  *)
(***************************************************************************)

\* i2c_master_bus_add_device followed by ESP_ERROR_CHECK: the constructor.
Construct(h, address, ok) ==
    /\ ~aborted
    /\ ~live[h]
    /\ nextReg <= MaxRegs
    /\ IF ok
       THEN /\ live' = [live EXCEPT ![h] = TRUE]
            /\ h_address' = [h_address EXCEPT ![h] = address]
            /\ h_dev_handle' = [h_dev_handle EXCEPT ![h] = nextReg]
            /\ registered' = registered \cup {nextReg}
            /\ nextReg' = nextReg + 1
            /\ aborted' = FALSE
       ELSE /\ aborted' = TRUE
            /\ UNCHANGED <<live, h_address, h_dev_handle, registered, nextReg>>
    /\ movedFrom' = movedFrom \ {h}
    /\ lastLife' = [NoLife EXCEPT !.kind = "construct", !.d = h]
    /\ UNCHANGED <<rmCalls>>
    /\ UNCHANGED xferVars

\* (a move that leaves the source's handle in place)
MoveNoNull(d, s) ==
    /\ h_address' = [[h_address EXCEPT ![d] = h_address[s]] EXCEPT ![s] = 0]
    /\ h_dev_handle' = [h_dev_handle EXCEPT ![d] = h_dev_handle[s]]

\* (a move that leaves the source's address in place)
MoveKeepsAddress(d, s) ==
    /\ h_address' = [h_address EXCEPT ![d] = h_address[s]]
    /\ h_dev_handle' =
         [[h_dev_handle EXCEPT ![d] = h_dev_handle[s]] EXCEPT ![s] = NULL]

\* The four assignments shared by the move constructor and move assignment,
\* in the order of the code (so that d = s gives what the code gives).
MoveFields(d, s) ==
    /\ h_address' = [[h_address EXCEPT ![d] = h_address[s]] EXCEPT ![s] = 0]
    /\ h_dev_handle' =
         [[h_dev_handle EXCEPT ![d] = h_dev_handle[s]] EXCEPT ![s] = NULL]

\* AT24C256(AT24C256 &&other): d is a new object, s = other.
MoveConstruct(d, s) ==
    /\ ~aborted
    /\ ~live[d] /\ live[s]
    /\ MoveFields(d, s)
    /\ live' = [live EXCEPT ![d] = TRUE]
    /\ movedFrom' = (movedFrom \ {d}) \cup {s}
    /\ lastLife' = [NoLife EXCEPT !.kind = "move_construct", !.d = d, !.s = s,
                                  !.sHandle = h_dev_handle[s],
                                  !.sAddr = h_address[s]]
    /\ UNCHANGED <<registered, rmCalls, nextReg, aborted>>
    /\ UNCHANGED xferVars

\* operator=(AT24C256 &&other): d = *this, s = other; d = s is self-assignment.
MoveAssign(d, s) ==
    /\ ~aborted
    /\ live[d] /\ live[s]
    /\ MoveFields(d, s)
    /\ movedFrom' = IF d = s THEN movedFrom ELSE (movedFrom \ {d}) \cup {s}
    /\ lastLife' = [NoLife EXCEPT !.kind = "move_assign", !.d = d, !.s = s,
                                  !.sHandle = h_dev_handle[s],
                                  !.sAddr = h_address[s]]
    /\ UNCHANGED <<live, registered, rmCalls, nextReg, aborted>>
    /\ UNCHANGED xferVars

\* ~AT24C256(): i2c_master_bus_rm_device under ESP_ERROR_CHECK when the
\* handle is not null. The slot's storage is dead afterwards.
Destruct(h, ok) ==
    /\ ~aborted
    /\ live[h]
    /\ IF h_dev_handle[h] # NULL
       THEN /\ rmCalls' = [rmCalls EXCEPT ![h_dev_handle[h]] = @ + 1]
            /\ IF ok
               THEN /\ registered' = registered \ {h_dev_handle[h]}
                    /\ aborted' = FALSE
               ELSE /\ aborted' = TRUE
                    /\ UNCHANGED registered
       ELSE /\ ok
            /\ UNCHANGED <<rmCalls, registered, aborted>>
    /\ live' = [live EXCEPT ![h] = FALSE]
    /\ h_address' = [h_address EXCEPT ![h] = 0]
    /\ h_dev_handle' = [h_dev_handle EXCEPT ![h] = NULL]
    /\ movedFrom' = movedFrom \ {h}
    /\ lastLife' = [NoLife EXCEPT !.kind = "destruct", !.d = h,
                                  !.sHandle = h_dev_handle[h],
                                  !.wasMoved = (h \in movedFrom),
                                  !.rm = h_dev_handle[h]]
    /\ UNCHANGED <<nextReg>>
    /\ UNCHANGED xferVars

(***************************************************************************)
(* The EEPROM and the bus transport (external to the driver).              *)
(***************************************************************************)
\* the handle the transfer operations are called on
This == 1
\* content of an erased cell, and of a caller's fresh destination buffer
ERASED == 255
DEST_INIT == 0
\* post-write delay in milliseconds
WRITE_DELAY_MS == 25

\* byte k (from 0) of the caller's source buffer
Buf(seed, k) == U8(seed + k)
\* byte k of the source as the code reads it: past the buffer's end the code
\* reads whatever follows it in memory
SrcByte(o, k) == IF k < o.blen THEN Buf(o.seed, k) ELSE o.garbage

Cell(m, a) == IF a \in DOMAIN m THEN m[a] ELSE ERASED

\* the 15-bit word address a 2-byte header selects (the top bit is ignored)
WordAddr(payload) == (payload[1] * 256 + payload[2]) % MEMORY_SIZE

\* where data byte k (from 0) of one write transaction lands: the low 6
\* address bits roll over inside the page
RollInPage(a, k) ==
    ((a \div PAGE_SIZE) * PAGE_SIZE) + (((a % PAGE_SIZE) + k) % PAGE_SIZE)

\* the memory after one accepted write transaction with this payload: a
\* cell written more than once (more than a page of data) keeps the last byte
DevWrite(m, payload) ==
    LET a == WordAddr(payload)
        n == Len(payload) - 2
        touched == {RollInPage(a, k) : k \in 0..(n - 1)}
        firstK(t) == (t - a) % PAGE_SIZE
        lastK(t) == firstK(t) + PAGE_SIZE * ((n - 1 - firstK(t)) \div PAGE_SIZE)
    IN [t \in (DOMAIN m) \cup touched |->
            IF t \in touched THEN payload[3 + lastK(t)] ELSE m[t]]

\* the n bytes one sequential read returns: the address counter rolls over
\* from the last address to 0x0000
DevRead(m, payload, n) ==
    [k \in 1..n |-> Cell(m, (WordAddr(payload) + k - 1) % MEMORY_SIZE)]

\* i2c_master_transmit / i2c_master_transmit_receive return ESP_OK. A
\* transaction that does not (no acknowledge, null handle) changes no cell.
TransportOk(ok) == ok /\ h_dev_handle[This] # NULL

Tx(payload, ok) == [type |-> "tx", payload |-> payload, rlen |-> 0, ok |-> ok]
TxRx(payload, n, ok) == [type |-> "txrx", payload |-> payload, rlen |-> n, ok |-> ok]
Delay == [type |-> "delay", payload |-> << >>, rlen |-> WRITE_DELAY_MS, ok |-> TRUE]

\* (the address header low byte first)
HeaderLowFirst(address) == <<U8(address), U8(address \div 256)>>

\* the 2-byte big-endian address header
Header(address) == <<U8(address \div 256), U8(address)>>

Ret(b) == [ok |-> b, value |-> 0]
Opt(v) == [ok |-> TRUE, value |-> v]
Nullopt == [ok |-> FALSE, value |-> 0]

(***************************************************************************)
(* The byte-level transfer engine.                                         *)
(***************************************************************************)
NoEvent == [type |-> "none", ok |-> TRUE]
\* the last event on the bus when an operation is called
PrevEvent ==
    IF trace = << >> THEN lastEvent
    ELSE [type |-> trace[Len(trace)].type, ok |-> trace[Len(trace)].ok]

\* the caller may call an operation
Idle == pc # "loop" /\ ~aborted /\ live[This] /\ ops < MaxOps

NewOp(kind, address, size, seed, blen, garbage) ==
    [kind |-> kind, address |-> address, size |-> size, seed |-> seed,
     blen |-> blen, garbage |-> garbage, count |-> size, elem |-> 1]

\* an operation returns: r is the value returned, e the error logged
Finish(o, r, e, m, t) ==
    /\ pc' = "done"
    /\ op' = o
    /\ result' = r
    /\ err' = e
    /\ mem' = m
    /\ trace' = t

FinishWrite(o, r, e, m, t) ==
    /\ Finish(o, r, e, m, t)
    /\ lastWrite' = [op |-> o, result |-> r.ok, err |-> e]

\* (a check that also refuses the last address)
WriteByteRejectsLastAddress(address) == safe_mode /\ address >= MEMORY_SIZE - 1

\* the address check of write(address, byte)
WriteByteRejects(address) == safe_mode /\ address > MEMORY_SIZE - 1

\* bool write(uint16_t address, uint8_t byte)
WriteByteCall(address, byte, ok) ==
    LET o == NewOp("write_byte", address, 1, byte, 1, 0)
        payload == Header(address) \o <<byte>>
    IN
    /\ Idle
    /\ ops' = ops + 1
    /\ opMem' = mem
    /\ lastEvent' = PrevEvent
    /\ IF WriteByteRejects(address)
       THEN FinishWrite(o, Ret(FALSE), "OutOfRange", mem, << >>)
       ELSE IF ~TransportOk(ok)
       THEN FinishWrite(o, Ret(FALSE), "Transport", mem, <<Tx(payload, FALSE)>>)
       ELSE FinishWrite(o, Ret(TRUE), "", DevWrite(mem, payload),
                        <<Tx(payload, TRUE), Delay>>)
    /\ UNCHANGED <<safe_mode, loopv, rbuf>>
    /\ UNCHANGED lifeVars
    /\ UNCHANGED concVars

\* (the checks without the page border check)
PageCheckNoOverlap(address, size) ==
    IF safe_mode /\ address >= 32768 THEN "OutOfRange" ELSE ""

\* (the checks made whatever the mode)
PageCheckAnyMode(address, size) ==
    IF address >= 32768 THEN "OutOfRange"
    ELSE IF Shr6(address) # Shr6(address + size - 1) THEN "PageOverlap"
    ELSE ""

\* the checks of write_page: the error logged, "" when the call goes on
PageCheck(address, size) ==
    IF safe_mode /\ address >= 32768 THEN "OutOfRange"
    ELSE IF safe_mode /\ Shr6(address) # Shr6(address + size - 1) THEN "PageOverlap"
    ELSE ""

\* (a write_page that returns true whatever the transport returned)
WritePageIgnoresError(o, address, off, size, ok, m) ==
    LET e == PageCheck(address, size)
        payload == Header(address) \o [k \in 1..size |-> SrcByte(o, off + k - 1)]
    IN IF e # ""
       THEN [ok |-> FALSE, err |-> e, mem |-> m, events |-> << >>]
       ELSE IF ~TransportOk(ok)
       THEN [ok |-> TRUE, err |-> "", mem |-> m, events |-> <<Tx(payload, FALSE)>>]
       ELSE [ok |-> TRUE, err |-> "", mem |-> DevWrite(m, payload),
             events |-> <<Tx(payload, TRUE), Delay>>]

\* (a write_page that sends one byte more than size)
WritePageOneMore(o, address, off, size, ok, m) ==
    LET e == PageCheck(address, size)
        payload == Header(address) \o [k \in 1..size + 1 |-> SrcByte(o, off + k - 1)]
    IN IF e # ""
       THEN [ok |-> FALSE, err |-> e, mem |-> m, events |-> << >>]
       ELSE IF ~TransportOk(ok)
       THEN [ok |-> FALSE, err |-> "Transport", mem |-> m,
             events |-> <<Tx(payload, FALSE)>>]
       ELSE [ok |-> TRUE, err |-> "", mem |-> DevWrite(m, payload),
             events |-> <<Tx(payload, TRUE), Delay>>]

\* (a write_page that returns at once after a successful transmit)
WritePageNoDelay(o, address, off, size, ok, m) ==
    LET e == PageCheck(address, size)
        payload == Header(address) \o [k \in 1..size |-> SrcByte(o, off + k - 1)]
    IN IF e # ""
       THEN [ok |-> FALSE, err |-> e, mem |-> m, events |-> << >>]
       ELSE IF ~TransportOk(ok)
       THEN [ok |-> FALSE, err |-> "Transport", mem |-> m,
             events |-> <<Tx(payload, FALSE)>>]
       ELSE [ok |-> TRUE, err |-> "", mem |-> DevWrite(m, payload),
             events |-> <<Tx(payload, TRUE)>>]

\* bool write_page(uint16_t address, uint8_t* buffer, uint16_t size), as a
\* function of the state: buffer = source + off. Gives the value returned,
\* the error logged, the memory afterwards and the bus events.
WritePage(o, address, off, size, ok, m) ==
    LET e == PageCheck(address, size)
        payload == Header(address) \o [k \in 1..size |-> SrcByte(o, off + k - 1)]
    IN IF e # ""
       THEN [ok |-> FALSE, err |-> e, mem |-> m, events |-> << >>]
       ELSE IF ~TransportOk(ok)
       THEN [ok |-> FALSE, err |-> "Transport", mem |-> m,
             events |-> <<Tx(payload, FALSE)>>]
       ELSE [ok |-> TRUE, err |-> "", mem |-> DevWrite(m, payload),
             events |-> <<Tx(payload, TRUE), Delay>>]

WritePageCall(address, seed, size, ok) ==
    LET o == NewOp("write_page", address, size, seed, size, 0)
        r == WritePage(o, address, 0, size, ok, mem)
    IN
    /\ Idle
    /\ ops' = ops + 1
    /\ opMem' = mem
    /\ lastEvent' = PrevEvent
    /\ FinishWrite(o, Ret(r.ok), r.err, r.mem, r.events)
    /\ UNCHANGED <<safe_mode, loopv, rbuf>>
    /\ UNCHANGED lifeVars
    /\ UNCHANGED concVars

\* the range check of write(address, buffer, size)
WriteRejects(address, size) == safe_mode /\ (address + size) > MEMORY_SIZE - 1

\* (a page count kept as an int, not narrowed to 16 bits)
LoopInitWidePageCount(address, size) ==
    LET start_page == U16(Shr6(address))
        end_page == U16(Shr6(address + size - 1))
    IN [i |-> 0, page_count |-> (end_page - start_page) + 1,
        start_page |-> start_page, remaining_size |-> size,
        current_addr |-> address, current_buffer |-> 0]

\* (a loop that stops after the first page)
LoopInitOnePage(address, size) ==
    [i |-> 0, page_count |-> 1, start_page |-> U16(Shr6(address)),
     remaining_size |-> size, current_addr |-> address, current_buffer |-> 0]

\* the locals of write before the first iteration
LoopInit(address, size) ==
    LET start_page == U16(Shr6(address))
        end_page == U16(Shr6(address + size - 1))
    IN [i |-> 0, page_count |-> U16((end_page - start_page) + 1),
        start_page |-> start_page, remaining_size |-> size,
        current_addr |-> address, current_buffer |-> 0]

\* bool write(uint16_t address, uint8_t* buffer, uint16_t size) from its first
\* line to the loop: o.address, o.size are the arguments
WriteEnter(o) ==
    /\ ops' = ops + 1
    /\ opMem' = mem
    /\ lastEvent' = PrevEvent
    /\ IF WriteRejects(o.address, o.size)
       THEN /\ FinishWrite(o, Ret(FALSE), "OutOfRange", mem, << >>)
            /\ UNCHANGED loopv
       ELSE LET l == LoopInit(o.address, o.size)
            IN IF l.i < l.page_count
               THEN /\ pc' = "loop"
                    /\ op' = o
                    /\ loopv' = l
                    /\ trace' = << >>
                    /\ err' = ""
                    /\ UNCHANGED <<result, mem, lastWrite>>
               ELSE /\ FinishWrite(o, Ret(TRUE), "", mem, << >>)
                    /\ loopv' = l

WriteCall(address, seed, size) ==
    /\ Idle
    /\ WriteEnter(NewOp("write", address, size, seed, size, 0))
    /\ UNCHANGED <<safe_mode, rbuf>>
    /\ UNCHANGED lifeVars
    /\ UNCHANGED concVars

\* (a byte count that looks at the bytes left only)
ByteCountFullPage(l) == U8(Min(l.remaining_size, PAGE_SIZE))

\* the byte count of the iteration
ByteCount(l) ==
    LET next_page_addr == U16(Shl6(l.start_page + l.i + 1))
        page_byte_remaining == U16(next_page_addr - l.current_addr)
    IN U8(Min(l.remaining_size, page_byte_remaining))

\* (an iteration that leaves the device address where it was)
AdvanceKeepsAddress(l, byte_count) ==
    [l EXCEPT !.i = @ + 1,
              !.remaining_size = U16(@ - byte_count),
              !.current_buffer = @ + byte_count]

\* (an iteration that leaves the buffer cursor where it was)
AdvanceKeepsCursor(l, byte_count) ==
    [l EXCEPT !.i = @ + 1,
              !.remaining_size = U16(@ - byte_count),
              !.current_addr = U16(@ + byte_count)]

\* the end of an iteration: the three cursors move on by byte_count
Advance(l, byte_count) ==
    [l EXCEPT !.i = @ + 1,
              !.remaining_size = U16(@ - byte_count),
              !.current_addr = U16(@ + byte_count),
              !.current_buffer = @ + byte_count]

\* one iteration of write's for loop, and the loop's exit after it
WriteLoop(ok) ==
    LET byte_count == ByteCount(loopv)
        r == WritePage(op, loopv.current_addr, loopv.current_buffer, byte_count,
                       ok, mem)
        l == Advance(loopv, byte_count)
    IN
    /\ pc = "loop"
    /\ IF ~r.ok
       THEN /\ FinishWrite(op, Ret(FALSE), r.err, r.mem, trace \o r.events)
            /\ UNCHANGED loopv
       ELSE IF l.i < l.page_count
       THEN /\ loopv' = l
            /\ mem' = r.mem
            /\ trace' = trace \o r.events
            /\ UNCHANGED <<pc, op, result, err, lastWrite>>
       ELSE /\ FinishWrite(op, Ret(TRUE), "", r.mem, trace \o r.events)
            /\ loopv' = l
    /\ UNCHANGED <<safe_mode, rbuf, opMem, ops, lastEvent>>
    /\ UNCHANGED lifeVars
    /\ UNCHANGED concVars

(***************************************************************************)
(* Two callers on one handle. write is const and keeps its cursors in      *)
(* locals, so each caller has its own; the callers share the bus and the   *)
(* device. A caller is descheduled at the latest in the delay after a page *)
(* transaction, so a step is one page transaction and its delay.           *)
(***************************************************************************)
Other(c) == CHOOSE d \in Callers : d # c
OtherOnTheWay(c) == conc[Other(c)].pc = "loop"

\* caller c calls write(address, buffer, size)
ConcCall(c, address, seed, size) ==
    LET o == NewOp("write", address, size, seed, size, 0)
        l == LoopInit(address, size)
    IN
    /\ conc[c].pc = "idle" /\ ~aborted /\ live[This]
    /\ conc' = [conc EXCEPT ![c] =
          IF WriteRejects(address, size)
          THEN [pc |-> "done", op |-> o, l |-> NoCall.l, ok |-> FALSE]
          ELSE IF l.i < l.page_count
          THEN [pc |-> "loop", op |-> o, l |-> l, ok |-> FALSE]
          ELSE [pc |-> "done", op |-> o, l |-> l, ok |-> TRUE]]
    /\ order' = Append(order, c)
    /\ overlap' = (overlap \/ OtherOnTheWay(c))
    /\ UNCHANGED <<safe_mode, mem, pc, op, loopv, result, err, rbuf, trace,
                   opMem, lastWrite, ops, lastEvent>>
    /\ UNCHANGED lifeVars

\* one iteration of the loop of caller c's write
ConcLoop(c, ok) ==
    LET me == conc[c]
        byte_count == ByteCount(me.l)
        r == WritePage(me.op, me.l.current_addr, me.l.current_buffer,
                       byte_count, ok, mem)
        l == Advance(me.l, byte_count)
    IN
    /\ me.pc = "loop"
    /\ mem' = r.mem
    /\ conc' = [conc EXCEPT ![c] =
          IF ~r.ok THEN [me EXCEPT !.pc = "done", !.ok = FALSE]
          ELSE IF l.i < l.page_count THEN [me EXCEPT !.l = l]
          ELSE [me EXCEPT !.pc = "done", !.l = l, !.ok = TRUE]]
    /\ overlap' = (overlap \/ OtherOnTheWay(c))
    /\ UNCHANGED <<safe_mode, pc, op, loopv, result, err, rbuf, trace,
                   opMem, lastWrite, ops, lastEvent, order>>
    /\ UNCHANGED lifeVars

\* (a check that also refuses the whole range)
CountRejectsOffByOne(count, rangeLen) == safe_mode /\ count >= rangeLen

\* the count check of the range overloads
CountRejects(count, rangeLen) == safe_mode /\ count > rangeLen

\* bool write(uint16_t address, R&& range, size_t count): the range holds
\* rangeLen elements of elemSize bytes
WriteRangeCall(address, seed, rangeLen, elemSize, count, garbage) ==
    LET o == [NewOp("write_range", address, U16(count * elemSize), seed,
                    rangeLen * elemSize, garbage)
                 EXCEPT !.count = count, !.elem = elemSize]
    IN
    /\ Idle
    /\ IF CountRejects(count, rangeLen)
       THEN /\ ops' = ops + 1
            /\ opMem' = mem
            /\ lastEvent' = PrevEvent
            /\ FinishWrite(o, Ret(FALSE), "SizeMismatch", mem, << >>)
            /\ UNCHANGED loopv
       ELSE WriteEnter(o)
    /\ UNCHANGED <<safe_mode, rbuf>>
    /\ UNCHANGED lifeVars
    /\ UNCHANGED concVars

\* bool write(uint16_t address, R&& range): the whole range, no count check;
\* the byte count is narrowed to the uint16_t size parameter of write
WriteRangeAllCall(address, seed, rangeLen, elemSize) ==
    LET o == [NewOp("write_range_all", address, U16(rangeLen * elemSize), seed,
                    rangeLen * elemSize, 0)
                 EXCEPT !.count = rangeLen, !.elem = elemSize]
    IN
    /\ Idle
    /\ WriteEnter(o)
    /\ UNCHANGED <<safe_mode, rbuf>>
    /\ UNCHANGED lifeVars
    /\ UNCHANGED concVars

\* (a read without the start address check)
ReadRejectsNever(address) == FALSE

\* the start address check of the reads
ReadRejects(address) == safe_mode /\ address >= 32768

\* auto read(uint16_t address): optional<uint8_t> in safe mode, uint8_t otherwise
ReadByteCall(address, ok) ==
    LET o == NewOp("read_byte", address, 1, 0, 1, 0)
        payload == Header(address)
        got == TransportOk(ok)
        data == IF got THEN DevRead(mem, payload, 1)[1] ELSE 0
    IN
    /\ Idle
    /\ opMem' = mem
    /\ lastEvent' = PrevEvent
    /\ ops' = ops + 1
    /\ IF ReadRejects(address)
       THEN Finish(o, Nullopt, "OutOfRange", mem, << >>)
       ELSE IF safe_mode /\ ~got
       THEN Finish(o, Nullopt, "Transport", mem, <<TxRx(payload, 1, FALSE)>>)
       ELSE Finish(o, Opt(data), "", mem, <<TxRx(payload, 1, got), Delay>>)
    /\ rbuf' = << >>
    /\ UNCHANGED <<safe_mode, loopv, lastWrite>>
    /\ UNCHANGED lifeVars
    /\ UNCHANGED concVars

\* (a read that also refuses a range ending after the last address)
ReadIntoChecksEnd(o, dest, ok) ==
    LET payload == Header(o.address)
        got == DevRead(mem, payload, o.size)
    IN
    IF ReadRejects(o.address) \/ (safe_mode /\ o.address + o.size > MEMORY_SIZE)
    THEN /\ Finish(o, Ret(FALSE), "OutOfRange", mem, << >>)
         /\ rbuf' = dest
    ELSE IF ~TransportOk(ok)
    THEN /\ Finish(o, Ret(FALSE), "Transport", mem, <<TxRx(payload, o.size, FALSE)>>)
         /\ rbuf' = dest
    ELSE /\ Finish(o, Ret(TRUE), "", mem, <<TxRx(payload, o.size, TRUE), Delay>>)
         /\ rbuf' = [k \in 1..(IF o.size > Len(dest) THEN o.size ELSE Len(dest)) |->
                        IF k <= o.size THEN got[k] ELSE dest[k]]

\* bool read(uint16_t address, uint8_t* buffer, size_t size) into a
\* destination that holds dest before the call
ReadInto(o, dest, ok) ==
    LET payload == Header(o.address)
        got == DevRead(mem, payload, o.size)
    IN
    IF ReadRejects(o.address)
    THEN /\ Finish(o, Ret(FALSE), "OutOfRange", mem, << >>)
         /\ rbuf' = dest
    ELSE IF ~TransportOk(ok)
    THEN /\ Finish(o, Ret(FALSE), "Transport", mem, <<TxRx(payload, o.size, FALSE)>>)
         /\ rbuf' = dest
    ELSE /\ Finish(o, Ret(TRUE), "", mem, <<TxRx(payload, o.size, TRUE), Delay>>)
         /\ rbuf' = [k \in 1..(IF o.size > Len(dest) THEN o.size ELSE Len(dest)) |->
                        IF k <= o.size THEN got[k] ELSE dest[k]]

FreshDest(n) == [k \in 1..n |-> DEST_INIT]

ReadBufCall(address, size, ok) ==
    /\ Idle
    /\ opMem' = mem
    /\ lastEvent' = PrevEvent
    /\ ops' = ops + 1
    /\ ReadInto(NewOp("read", address, size, 0, size, 0), FreshDest(size), ok)
    /\ UNCHANGED <<safe_mode, loopv, lastWrite>>
    /\ UNCHANGED lifeVars
    /\ UNCHANGED concVars

\* bool read(uint16_t address, R& range, size_t count)
ReadRangeCall(address, rangeLen, elemSize, count, ok) ==
    LET o == [NewOp("read_range", address, count * elemSize, 0,
                    rangeLen * elemSize, 0)
                 EXCEPT !.count = count, !.elem = elemSize]
    IN
    /\ Idle
    /\ opMem' = mem
    /\ lastEvent' = PrevEvent
    /\ ops' = ops + 1
    /\ IF CountRejects(count, rangeLen)
       THEN /\ Finish(o, Ret(FALSE), "SizeMismatch", mem, << >>)
            /\ rbuf' = FreshDest(rangeLen * elemSize)
       ELSE ReadInto(o, FreshDest(rangeLen * elemSize), ok)
    /\ UNCHANGED <<safe_mode, loopv, lastWrite>>
    /\ UNCHANGED lifeVars
    /\ UNCHANGED concVars

(***************************************************************************)
(* Initial state: the bus exists, one handle has been constructed on it    *)
(* (slot 1, registration 1) and no transfer has been made; the EEPROM is   *)
(* erased.                                                                 *)
(***************************************************************************)
Init ==
    /\ live = [h \in Handles |-> h = 1]
    /\ h_address = [h \in Handles |-> IF h = 1 THEN 81 ELSE 0]
    /\ h_dev_handle = [h \in Handles |-> IF h = 1 THEN 1 ELSE NULL]
    /\ registered = {1}
    /\ rmCalls = [r \in Regs |-> 0]
    /\ nextReg = 2
    /\ aborted = FALSE
    /\ movedFrom = {}
    /\ lastLife = NoLife
    /\ safe_mode \in BOOLEAN
    /\ mem = [a \in {} |-> 0]
    /\ pc = "idle"
    /\ op = NoOp
    /\ loopv = NoLoop
    /\ result = [ok |-> FALSE, value |-> 0]
    /\ err = ""
    /\ rbuf = << >>
    /\ trace = << >>
    /\ opMem = [a \in {} |-> 0]
    /\ lastWrite = [op |-> NoOp, result |-> FALSE, err |-> ""]
    /\ ops = 0
    /\ lastEvent = NoEvent
    /\ conc = [c \in Callers |-> NoCall]
    /\ order = << >>
    /\ overlap = FALSE

NextLife ==
    \/ \E h \in Handles, a \in DevAddrSet, ok \in BOOLEAN : Construct(h, a, ok)
    \/ \E d \in Handles, s \in Handles : MoveConstruct(d, s)
    \/ \E d \in Handles, s \in Handles : MoveAssign(d, s)
    \/ \E h \in Handles, ok \in BOOLEAN : Destruct(h, ok)

SpecLife == Init /\ [][NextLife]_vars

(***************************************************************************)
(* The calls a run makes: <<address, size>> pairs around the page          *)
(* boundaries, the first and last page and the end of the address space.   *)
(***************************************************************************)
\* 0x0000, 0x0212, 0x7FFF, 0x8000, 0x8221, 0xFFFF
ByteAddrSet == {0, 530, 32767, 32768, 33313, 65535}
ByteSet == {42, 165}
\* write(address, buffer, size) calls: <<address, size, seed of the buffer>>
WriteArgs ==
    { <<0, 0, 1>>, <<0, 1, 1>>, <<64, 0, 1>>, <<381, 0, 1>>,
      <<62, 5, 1>>, <<62, 70, 101>>, <<381, 5, 1>>, <<176, 100, 120>>,
      <<32702, 66, 1>>, <<32702, 65, 1>>, <<32762, 5, 1>>, <<32763, 5, 1>>,
      <<32766, 5, 1>>, <<32767, 1, 1>>, <<32768, 1, 1>>, <<33313, 5, 1>>,
      <<65534, 5, 1>>, <<32704, 0, 1>>, <<32767, 0, 1>> }
\* write_page(address, buffer, size) calls: <<address, size, seed>>
PageArgs ==
    { <<0, 0, 1>>, <<0, 64, 1>>, <<0, 65, 1>>, <<62, 2, 1>>, <<62, 3, 101>>,
      <<64, 0, 1>>, <<381, 0, 1>>, <<381, 3, 1>>, <<381, 4, 101>>, <<381, 5, 1>>,
      <<2736, 12, 1>>, <<32704, 64, 1>>, <<32767, 1, 1>>, <<32768, 1, 1>>,
      <<33327, 12, 1>> }
\* read(address, buffer, size) calls: <<address, size>>
ReadArgs ==
    { <<0, 1>>, <<62, 5>>, <<62, 70>>, <<381, 5>>, <<176, 100>>, <<32702, 65>>,
      <<32702, 66>>, <<32762, 5>>, <<32766, 5>>, <<32768, 1>> }
\* the range overloads: a range of RangeLen elements at 0x017D or 0x7FFE
RangeAddrSet == {381, 32766}
RangeLenSet == {3}
ElemSizeSet == {1, 4}
CountSet == {2, 3, 4}
RangeSeedSet == {16}
GarbageSet == {0, 255}
\* ranges of 65539 bytes: <<address, elements, element size>>
BigRangeArgs == { <<381, 65539, 1>>, <<381, 16385, 4>> }
\* whole-range writes: <<address, elements, element size>>
RangeAllArgs == { <<381, 3, 1>>, <<381, 3, 4>>, <<381, 16385, 4>> }

NextByte ==
    \/ \E a \in ByteAddrSet, b \in ByteSet, ok \in BOOLEAN : WriteByteCall(a, b, ok)
    \/ \E a \in ByteAddrSet, ok \in BOOLEAN : ReadByteCall(a, ok)
    \/ \E a \in ByteAddrSet, ok \in BOOLEAN : ReadBufCall(a, 1, ok)

SpecByte == Init /\ [][NextByte]_vars

NextBuf ==
    \/ \E w \in WriteArgs : WriteCall(w[1], w[3], w[2])
    \/ \E ok \in BOOLEAN : WriteLoop(ok)
    \/ \E r \in ReadArgs, ok \in BOOLEAN : ReadBufCall(r[1], r[2], ok)

SpecBuf == Init /\ [][NextBuf]_vars

NextPage ==
    \/ \E w \in PageArgs, ok \in BOOLEAN : WritePageCall(w[1], w[3], w[2], ok)
    \/ \E r \in ReadArgs, ok \in BOOLEAN : ReadBufCall(r[1], r[2], ok)

SpecPage == Init /\ [][NextPage]_vars

NextRange ==
    \/ \E a \in RangeAddrSet, sd \in RangeSeedSet, len \in RangeLenSet,
          es \in ElemSizeSet, c \in CountSet, g \in GarbageSet :
          WriteRangeCall(a, sd, len, es, c, g)
    \/ \E w \in BigRangeArgs, sd \in RangeSeedSet :
          WriteRangeCall(w[1], sd, w[2], w[3], w[2], 0)
    \/ \E w \in RangeAllArgs, sd \in RangeSeedSet :
          WriteRangeAllCall(w[1], sd, w[2], w[3])
    \/ \E ok \in BOOLEAN : WriteLoop(ok)
    \/ \E a \in RangeAddrSet, len \in RangeLenSet, es \in ElemSizeSet,
          c \in CountSet, ok \in BOOLEAN :
          ReadRangeCall(a, len, es, c, ok)

SpecRange == Init /\ [][NextRange]_vars

\* every byte-level operation on the bus, with a few calls of each
BusByteArgs == { <<530, 42>>, <<32768, 165>> }
BusPageArgs == { <<381, 3, 1>>, <<381, 4, 101>> }
BusWriteArgs == { <<62, 5, 1>>, <<176, 100, 120>>, <<32766, 5, 1>> }
BusReadArgs == { <<381, 5>>, <<32768, 1>> }

NextBus ==
    \/ \E w \in BusByteArgs, ok \in BOOLEAN : WriteByteCall(w[1], w[2], ok)
    \/ \E w \in BusPageArgs, ok \in BOOLEAN : WritePageCall(w[1], w[3], w[2], ok)
    \/ \E w \in BusWriteArgs : WriteCall(w[1], w[3], w[2])
    \/ \E ok \in BOOLEAN : WriteLoop(ok)
    \/ \E r \in BusReadArgs, ok \in BOOLEAN : ReadByteCall(r[1], ok)
    \/ \E r \in BusReadArgs, ok \in BOOLEAN : ReadBufCall(r[1], r[2], ok)

SpecBus == Init /\ [][NextBus]_vars

\* two tasks write overlapping ranges: <<address, size>>, and each task's buffer
ConcArgs == { <<62, 70>>, <<60, 10>>, <<176, 100>> }
ConcSeed(c) == IF c = "A" THEN 101 ELSE 1

NextConc ==
    \/ \E c \in Callers, w \in ConcArgs : ConcCall(c, w[1], ConcSeed(c), w[2])
    \/ \E c \in Callers, ok \in BOOLEAN : ConcLoop(c, ok)

SpecConc == Init /\ [][NextConc]_vars

(***************************************************************************)
(* Properties of the handle life cycle (under SpecLife).                   *)
(***************************************************************************)
Holders(r) == {h \in Handles : live[h] /\ h_dev_handle[h] = r}

\* C5: no registration is ever deregistered more than once, and at every
\* moment each registration is held by at most one live handle.
C5_SingleOwner ==
    \A r \in Regs : rmCalls[r] <= 1 /\ Cardinality(Holders(r)) <= 1

\* a registration was handed from one handle to another and then removed by
\* its new holder's destructor, the moved-from object still being alive
C5_Witness ==
    /\ lastLife.kind = "destruct"
    /\ lastLife.rm # NULL
    /\ rmCalls[lastLife.rm] = 1
    /\ movedFrom # {}

\* C6: once every handle has been destroyed, every registration that was
\* created has been deregistered exactly once and none is left on the bus.
C6_NoLeak ==
    (~aborted /\ \A h \in Handles : ~live[h]) =>
        /\ registered = {}
        /\ \A r \in Regs : r < nextReg => rmCalls[r] = 1

\* C7: after a move construction or move assignment from S into a distinct D,
\* D holds the registration and address S held, S holds no registration and
\* address 0; the destructor of a moved-from S deregisters nothing.
C7_MoveTransfers ==
    /\ (lastLife.kind \in {"move_construct", "move_assign"}
        /\ lastLife.d # lastLife.s) =>
            /\ h_dev_handle[lastLife.d] = lastLife.sHandle
            /\ h_address[lastLife.d] = lastLife.sAddr
            /\ h_dev_handle[lastLife.s] = NULL
            /\ h_address[lastLife.s] = 0
    /\ (lastLife.kind = "destruct" /\ lastLife.wasMoved) =>
            lastLife.rm = NULL

\* a handle that held a registration was moved into another one
C7_Witness ==
    /\ lastLife.kind = "move_assign"
    /\ lastLife.d # lastLife.s
    /\ lastLife.sHandle # NULL
    /\ h_dev_handle[lastLife.d] = lastLife.sHandle

(***************************************************************************)
(* Properties of the transfer engine.                                      *)
(***************************************************************************)
LAST_ADDRESS == MEMORY_SIZE - 1
PageOf(a) == a \div PAGE_SIZE
\* the bytes a write operation was given, in buffer order
Written(o) == [k \in 1..o.size |-> Buf(o.seed, k - 1)]
\* a non-empty range that lies inside the address space
InSpace(o) == o.size >= 1 /\ o.address + o.size - 1 <= LAST_ADDRESS
MultiPage(o) == o.size >= 1 /\ PageOf(o.address) # PageOf(o.address + o.size - 1)
Transactions(t) == {i \in 1..Len(t) : t[i].type \in {"tx", "txrx"}}
FailedTx(t) == {i \in Transactions(t) : ~t[i].ok}
\* data bytes carried by the successful write transactions of a trace
RECURSIVE DataSent(_)
DataSent(t) ==
    IF t = << >> THEN 0
    ELSE DataSent(Tail(t))
         + (IF Head(t).type = "tx" /\ Head(t).ok THEN Len(Head(t).payload) - 2 ELSE 0)

\* C1 (under SpecBuf): in strict mode with a succeeding transport, a write of
\* a range of the address space that spans more than one page, followed by a
\* read of the same range, reads back exactly the bytes written.
C1_RoundTripEveryRange ==
    (/\ safe_mode
     /\ pc = "done" /\ op.kind = "read" /\ err # "Transport"
     /\ lastWrite.op.kind = "write" /\ lastWrite.err # "Transport"
     /\ InSpace(lastWrite.op) /\ MultiPage(lastWrite.op)
     /\ op.address = lastWrite.op.address /\ op.size = lastWrite.op.size) =>
        /\ result.ok
        /\ rbuf = Written(lastWrite.op)

\* C2 (under SpecBuf): in strict mode write fails whenever the last byte of
\* the range is above 0x7FFF, and is accepted whenever it is at or below it.
C2_RangeCheck ==
    (safe_mode /\ pc = "done" /\ op.kind = "write" /\ op.size >= 1) =>
        /\ (op.address + op.size - 1 > LAST_ADDRESS) => ~result.ok
        /\ (op.address + op.size - 1 <= LAST_ADDRESS /\ err # "Transport") =>
               result.ok

\* C3 (under SpecPage): in strict mode write_page fails without a bus
\* transaction whenever address >= 0x8000 or address and address+size-1 lie in
\* different pages, and is accepted (one transaction, whose outcome it
\* returns) whenever the whole range lies inside one page.
C3_WritePageCheck ==
    (safe_mode /\ pc = "done" /\ op.kind = "write_page") =>
        IF op.address > LAST_ADDRESS
           \/ PageOf(op.address) # PageOf(op.address + op.size - 1)
        THEN ~result.ok /\ trace = << >> /\ mem = opMem
        ELSE /\ err \notin {"OutOfRange", "PageOverlap"}
             /\ Cardinality(Transactions(trace)) = 1
             /\ result.ok = trace[1].ok

\* a range that crosses the page 5 / page 6 border by one byte is refused
C3_Witness ==
    /\ safe_mode /\ pc = "done" /\ op.kind = "write_page"
    /\ op.address = 381 /\ op.size = 4
    /\ ~result.ok /\ err = "PageOverlap"

\* C4 (under SpecByte): for every address a in [0, 0x7FFF] and byte v, with a
\* succeeding transport, write(a, v) followed by read(a) returns v, and the
\* write changes no byte at any other address.
C4_ByteRoundTrip ==
    /\ (/\ pc = "done" /\ op.kind = "read_byte" /\ FailedTx(trace) = {}
        /\ lastWrite.op.kind = "write_byte" /\ lastWrite.err # "Transport"
        /\ op.address = lastWrite.op.address /\ op.address <= LAST_ADDRESS) =>
            result.ok /\ result.value = lastWrite.op.seed
    /\ (pc = "done" /\ op.kind = "write_byte" /\ op.address <= LAST_ADDRESS) =>
            /\ \A a \in (DOMAIN mem) \cup (DOMAIN opMem) :
                   a # op.address => Cell(mem, a) = Cell(opMem, a)
            /\ result.ok => Cell(mem, op.address) = op.seed

\* the byte written at the last address 0x7FFF is read back
C4_Witness ==
    /\ pc = "done" /\ op.kind = "read_byte" /\ op.address = 32767
    /\ lastWrite.op.kind = "write_byte" /\ lastWrite.op.address = 32767
    /\ lastWrite.result
    /\ result.ok /\ result.value = lastWrite.op.seed

\* C8 (under SpecBuf): when a page write of write(address, buffer, size)
\* fails on the bus, write returns failure and issues no further bus
\* transaction; the device holds the new bytes in the page ranges written
\* before it and its old bytes from the failed page range on.
C8_PartialWrite ==
    /\ (pc = "loop") => FailedTx(trace) = {}
    /\ (pc = "done" /\ op.kind = "write" /\ FailedTx(trace) # {}
        /\ op.address + op.size - 1 <= LAST_ADDRESS) =>
            /\ ~result.ok
            /\ FailedTx(trace) = {Len(trace)}
            /\ \A j \in 0..(op.size - 1) :
                   Cell(mem, op.address + j) =
                       IF j < DataSent(trace) THEN Buf(op.seed, j)
                       ELSE Cell(opMem, op.address + j)

\* the second or a later page write of a write fails, bytes of the earlier
\* pages being on the device
C8_Witness ==
    /\ pc = "done" /\ op.kind = "write" /\ FailedTx(trace) # {}
    /\ loopv.i >= 1 /\ DataSent(trace) >= 1
    /\ Cell(mem, op.address) = Buf(op.seed, 0)
    /\ Cell(mem, op.address + op.size - 1) # Buf(op.seed, op.size - 1)

\* C9 (under SpecRange): in strict mode a range write or a read into a range
\* with a count above the range's element count fails without a bus
\* transaction and without touching the device or the destination; a count
\* at or below the element count is never refused by this check.
C9_CountCheck ==
    (safe_mode /\ pc = "done" /\ op.kind \in {"write_range", "read_range"}) =>
        IF op.count * op.elem > op.blen
        THEN /\ ~result.ok /\ err = "SizeMismatch"
             /\ trace = << >> /\ mem = opMem
             /\ op.kind = "read_range" => rbuf = FreshDest(op.blen)
        ELSE err # "SizeMismatch"

\* four elements asked of a range of three
C9_Witness ==
    /\ safe_mode /\ pc = "done" /\ op.kind = "read_range"
    /\ op.count = 4 /\ op.blen = 3 * op.elem
    /\ ~result.ok /\ err = "SizeMismatch"

\* C10 (under SpecByte): in strict mode the single-byte write, the
\* single-byte read and the buffer read fail without a bus transaction for
\* every start address >= 0x8000 and refuse no start address in [0, 0x7FFF].
C10_StartAddressCheck ==
    (safe_mode /\ pc = "done" /\ op.kind \in {"write_byte", "read_byte", "read"}) =>
        IF op.address > LAST_ADDRESS
        THEN ~result.ok /\ trace = << >> /\ mem = opMem
        ELSE err # "OutOfRange" /\ Cardinality(Transactions(trace)) = 1

\* a buffer read at 0x8000 is refused
C10_Witness ==
    /\ safe_mode /\ pc = "done" /\ op.kind = "read" /\ op.address = 32768
    /\ ~result.ok /\ trace = << >>

(***************************************************************************)
(* Properties of the bus traffic (under SpecBus).                          *)
(***************************************************************************)
\* the write transactions of the running operation's trace
WriteTx(t) == {i \in 1..Len(t) : t[i].type = "tx"}
\* the event on the bus just before event i of the running operation
Before(i) ==
    IF i = 1 THEN lastEvent
    ELSE [type |-> trace[i - 1].type, ok |-> trace[i - 1].ok]

\* C11 as stated: every successful write transaction is followed by the
\* post-write delay, and no two write transactions of the handle are issued
\* without that delay between them.
C11_DelayBetweenAllWrites ==
    /\ \A i \in WriteTx(trace) :
          trace[i].ok => i < Len(trace) /\ trace[i + 1].type = "delay"
    /\ \A i \in WriteTx(trace) : Before(i).type # "tx"

\* C11 amended: every successful write transaction is followed by the
\* post-write delay before the operation issues its next transaction or
\* returns, and a write transaction is issued straight after another one
\* only when that one failed (a failed transmit is followed by no delay).
C11_DelayAfterSuccessfulWrite ==
    /\ \A i \in WriteTx(trace) :
          trace[i].ok => i < Len(trace) /\ trace[i + 1].type = "delay"
    /\ \A i \in WriteTx(trace) : Before(i).type = "tx" => ~Before(i).ok

\* a multi-page write has sent its second page after the delay of the first,
\* the operation before it having ended with a delay as well
C11_Witness ==
    /\ op.kind = "write"
    /\ lastEvent.type = "delay"
    /\ Len(trace) >= 4
    /\ trace[1].type = "tx" /\ trace[1].ok
    /\ trace[2].type = "delay"
    /\ trace[3].type = "tx" /\ trace[3].ok
    /\ trace[4].type = "delay"

(***************************************************************************)
(* Properties of the buffer read (under SpecBuf).                          *)
(***************************************************************************)
\* C12: a buffer read checks its start address only and issues exactly one
\* transmit-receive transaction of size bytes, whatever the size; a
\* strict-mode read that starts at or below 0x7FFF and runs past it is not
\* rejected, and the bytes after 0x7FFF are the device's bytes from 0x0000 on.
C12_OneReadTransaction ==
    (pc = "done" /\ op.kind = "read") =>
        /\ (err = "OutOfRange") <=> (safe_mode /\ op.address > LAST_ADDRESS)
        /\ err # "OutOfRange" =>
              /\ Len(trace) >= 1
              /\ Transactions(trace) = {1}
              /\ trace[1].type = "txrx"
              /\ trace[1].rlen = op.size
        /\ result.ok =>
              \A k \in 1..op.size :
                  rbuf[k] = Cell(mem, (op.address + k - 1) % MEMORY_SIZE)

\* a strict-mode read of 5 bytes from 0x7FFE succeeded and its third byte is
\* the byte written at 0x0000 before
C12_Witness ==
    /\ safe_mode
    /\ pc = "done" /\ op.kind = "read" /\ result.ok
    /\ op.address = 32766 /\ op.size = 5
    /\ Transactions(trace) = {1}
    /\ 0 \in DOMAIN mem
    /\ rbuf[3] = mem[0] /\ rbuf[3] # ERASED

(***************************************************************************)
(* write_page across a page border (under SpecPage).                       *)
(***************************************************************************)
\* the call in progress is a write_page whose range lies in the address
\* space and crosses the border at the end of its page
Crossing(o) == o.kind = "write_page" /\ InSpace(o) /\ MultiPage(o)
\* the first address of the page of a, and of the page after it
PageBase(a) == PageOf(a) * PAGE_SIZE
\* the number of bytes of o that fit before the border
Fit(o) == PAGE_SIZE - (o.address % PAGE_SIZE)

\* C13: with strict mode off write_page sends a border-crossing range as one
\* transaction, the bytes after the border land at the start of the same
\* page and the next page keeps its contents; with strict mode on the same
\* call sends nothing and changes no byte of the device.
C13_CrossingWrapsInPage ==
    (pc = "done" /\ Crossing(op)) =>
        /\ safe_mode => (~result.ok /\ trace = << >> /\ mem = opMem)
        /\ ~safe_mode =>
              /\ Transactions(trace) = {1}
              /\ trace[1].type = "tx"
              /\ Len(trace[1].payload) = 2 + op.size
              /\ \A a \in PageBase(op.address) + PAGE_SIZE ..
                          PageBase(op.address) + 2 * PAGE_SIZE - 1 :
                    Cell(mem, a) = Cell(opMem, a)
              /\ result.ok =>
                    \A k \in Fit(op) .. op.size - 1 :
                        k + PAGE_SIZE >= op.size =>
                            Cell(mem, PageBase(op.address) + (k - Fit(op)))
                                = Buf(op.seed, k)

\* with strict mode off, 4 bytes written at 0x017D: the fourth is at 0x0140,
\* the start of the page, and 0x0180 is still erased
C13_Witness ==
    /\ ~safe_mode
    /\ pc = "done" /\ Crossing(op) /\ result.ok
    /\ op.address = 381 /\ op.size = 4
    /\ Cell(mem, 320) = Buf(op.seed, 3)
    /\ Cell(mem, 384) = ERASED

(***************************************************************************)
(* The page loop of write (under SpecBuf).                                 *)
(***************************************************************************)
\* the data bytes sent by the transactions before event i of the trace
SentBefore(i) == DataSent(SubSeq(trace, 1, i - 1))

\* C14: a write of size >= 1 that is accepted and whose transactions all
\* succeed issues ((address+size-1) >> 6) - (address >> 6) + 1 page write
\* transactions, and each carries min(bytes still to write, bytes up to the
\* next page border) data bytes.
C14_PageTransactions ==
    (pc = "done" /\ op.kind = "write" /\ op.size >= 1 /\ result.ok) =>
        /\ Cardinality(Transactions(trace))
              = PageOf(op.address + op.size - 1) - PageOf(op.address) + 1
        /\ \A i \in Transactions(trace) :
              /\ trace[i].type = "tx"
              /\ Len(trace[i].payload) - 2
                    = Min(op.size - SentBefore(i),
                          PAGE_SIZE - ((op.address + SentBefore(i)) % PAGE_SIZE))

\* 100 bytes written at 0x00B0 in three transactions of 16, 64 and 20 bytes
C14_Witness ==
    /\ pc = "done" /\ op.kind = "write" /\ result.ok
    /\ op.address = 176 /\ op.size = 100
    /\ Transactions(trace) = {1, 3, 5}
    /\ Len(trace[1].payload) = 2 + 16
    /\ Len(trace[3].payload) = 2 + 64
    /\ Len(trace[5].payload) = 2 + 20

(***************************************************************************)
(* The byte count of the range writes (under SpecRange).                   *)
(***************************************************************************)
\* C15: a range write of elements of size s whose count is not greater than
\* the range's element count asks the byte-level write for exactly count*s
\* bytes (the range's own length times s when count is omitted), for every
\* value of count*s.
C15_ExactByteCount ==
    (/\ pc \in {"loop", "done"}
     /\ op.kind \in {"write_range", "write_range_all"}
     /\ op.count * op.elem <= op.blen
     /\ err # "SizeMismatch") =>
        op.size = op.count * op.elem

(***************************************************************************)
(* The bytes on the bus (under SpecBus).                                   *)
(***************************************************************************)
\* the device address transaction i of the running operation is aimed at
Target(i) ==
    IF op.kind = "write" THEN (op.address + SentBefore(i)) % 65536
    ELSE op.address
\* the data bytes a write transaction carries after its header
DataOf(e) == SubSeq(e.payload, 3, Len(e.payload))

\* C16: every bus transaction starts with the 2-byte address header, high
\* byte first; the single-byte write sends exactly 3 bytes (header, value),
\* write_page exactly 2+size bytes (header, then the data in buffer order),
\* and both reads send exactly the 2 header bytes before receiving.
C16_BigEndianHeader ==
    \A i \in Transactions(trace) :
        /\ Len(trace[i].payload) >= 2
        /\ trace[i].payload[1] = (Target(i) \div 256) % 256
        /\ trace[i].payload[2] = Target(i) % 256
        /\ op.kind = "write_byte" =>
              trace[i].type = "tx" /\ DataOf(trace[i]) = <<op.seed>>
        /\ op.kind = "write_page" =>
              trace[i].type = "tx" /\ DataOf(trace[i]) = Written(op)
        /\ op.kind = "write" =>
              /\ trace[i].type = "tx"
              /\ \A k \in 1..Len(DataOf(trace[i])) :
                    DataOf(trace[i])[k] = Buf(op.seed, SentBefore(i) + k - 1)
        /\ op.kind \in {"read_byte", "read"} =>
              /\ trace[i].type = "txrx"
              /\ Len(trace[i].payload) = 2
              /\ trace[i].rlen = op.size

\* write_page of 3 bytes at 0x017D has sent 0x01, 0x7D and the three bytes
C16_Witness ==
    /\ pc = "done" /\ op.kind = "write_page" /\ result.ok
    /\ op.address = 381 /\ op.size = 3
    /\ trace[1].payload = <<1, 125>> \o Written(op)

(***************************************************************************)
(* Two callers (under SpecConc).                                           *)
(***************************************************************************)
BothDone == \A c \in Callers : conc[c].pc = "done" /\ conc[c].ok
\* the bytes the device holds in the range of o
Held(o) == [k \in 1..o.size |-> Cell(mem, o.address + k - 1)]

\* C17: when the two writes are serialized (neither caller runs while the
\* other's write is in progress) and both succeed, the range of the write
\* that ran last holds exactly that write's buffer; the mix of both buffers
\* that equals neither is the state C17_Witness, reached by interleaving.
C17_SerializedLastWins ==
    (BothDone /\ ~overlap) =>
        Held(conc[order[2]].op) = Written(conc[order[2]].op)

\* both callers have written the same multi-page range with success, their
\* page transactions interleaved, and the range holds bytes of both buffers:
\* it equals neither
C17_Witness ==
    /\ BothDone /\ overlap
    /\ conc["A"].op.address = conc["B"].op.address
    /\ conc["A"].op.size = conc["B"].op.size
    /\ MultiPage(conc["A"].op)
    /\ Held(conc["A"].op) # Written(conc["A"].op)
    /\ Held(conc["B"].op) # Written(conc["B"].op)
    /\ \A k \in 1..conc["A"].op.size :
          Held(conc["A"].op)[k] \in {Written(conc["A"].op)[k], Written(conc["B"].op)[k]}

(***************************************************************************)
(* The strict-mode write and its loop (under SpecBuf).                     *)
(***************************************************************************)
\* the range check of write lets the call through
RangeCheckPasses(o) == o.address + o.size <= LAST_ADDRESS
\* the address in the header of a transaction
HeaderAddr(e) == e.payload[1] * 256 + e.payload[2]
InLoop == op.kind = "write" /\ pc \in {"loop", "done"}

\* C18: in strict mode, when the range check of write passes, every
\* write_page call of the loop passes write_page's address and page border
\* checks (no chunk starts at or above 0x8000 or crosses a border), and the
\* write returns failure only when a bus transaction fails.
C18_ChunksPassChecks ==
    (safe_mode /\ InLoop /\ RangeCheckPasses(op)) =>
        /\ err \notin {"OutOfRange", "PageOverlap"}
        /\ \A i \in Transactions(trace) :
              /\ HeaderAddr(trace[i]) <= LAST_ADDRESS
              /\ PageOf(HeaderAddr(trace[i]))
                    = PageOf(HeaderAddr(trace[i]) + Len(DataOf(trace[i])) - 1)
                 \/ DataOf(trace[i]) = << >>
        /\ (pc = "done" /\ ~result.ok) => FailedTx(trace) # {}

\* a strict-mode write over several pages passed the range check, sent its
\* first page and failed on the bus at a later page
C18_Witness ==
    /\ safe_mode /\ InLoop /\ RangeCheckPasses(op) /\ MultiPage(op)
    /\ pc = "done" /\ ~result.ok /\ err = "Transport"
    /\ Len(trace) >= 3
    /\ FailedTx(trace) = {Len(trace)}

\* the written addresses that lie outside the range of o
Outside(o) ==
    {a \in DOMAIN mem \cup DOMAIN opMem :
        a < o.address \/ a > o.address + o.size - 1}

\* C19: in strict mode a write, whether it succeeds, is rejected or fails
\* partway, never changes a device byte outside [address, address+size-1].
C19_WriteFrame ==
    (safe_mode /\ InLoop) =>
        \A a \in Outside(op) : Cell(mem, a) = Cell(opMem, a)

\* a strict-mode write failed at a later page after changing the device,
\* which held written bytes outside the range before the call
C19_Witness ==
    /\ safe_mode /\ InLoop /\ pc = "done"
    /\ ~result.ok /\ DataSent(trace) > 0
    /\ mem # opMem
    /\ Outside(op) \cap DOMAIN opMem # {}

\* the cursors of the loop agree, the transactions so far are contiguous
\* and ascending, and a completed loop has nothing left to write
LoopCursors ==
    /\ pc = "loop" =>
          /\ loopv.current_addr - op.address = op.size - loopv.remaining_size
          /\ op.size - loopv.remaining_size = loopv.current_buffer
    /\ \A i \in Transactions(trace) : \A j \in Transactions(trace) :
          (i < j /\ Transactions(trace) \cap (i + 1 .. j - 1) = {}) =>
              /\ HeaderAddr(trace[j]) > HeaderAddr(trace[i])
              /\ HeaderAddr(trace[j])
                    = HeaderAddr(trace[i]) + Len(DataOf(trace[i]))
    /\ (pc = "done" /\ result.ok) => loopv.remaining_size = 0

\* C20 as stated: during a multi-page write the loop keeps current address -
\* start address = size - remaining bytes = buffer cursor before every page
\* transaction, the page transactions are issued in strictly ascending
\* address order, each starting where the previous one ended, and when the
\* loop completes the remaining byte count is 0.
C20_LoopCursorsEveryWrite ==
    (InLoop /\ MultiPage(op)) => LoopCursors

\* C20 amended: the same, for a multi-page write whose range ends at or below
\* 0xFFFF (as every write accepted in strict mode does); past 0xFFFF the
\* 16-bit current address wraps to 0.
C20_LoopCursorsIn16Bits ==
    (InLoop /\ MultiPage(op) /\ op.address + op.size <= 65536) => LoopCursors

\* before the third transaction of the write of 100 bytes at 0x00B0
C20_Witness ==
    /\ InLoop /\ MultiPage(op) /\ pc = "loop"
    /\ op.address = 176 /\ op.size = 100
    /\ loopv.i = 2
    /\ loopv.current_buffer = 80
    /\ loopv.current_addr = 256
    /\ loopv.remaining_size = 20
    /\ Transactions(trace) = {1, 3}

(***************************************************************************)
(* The write of no byte (under SpecBuf).                                   *)
(***************************************************************************)
\* write(address, buffer, 0) with address in [0, 0x7FFF] has returned
ZeroWriteDone ==
    pc = "done" /\ op.kind = "write" /\ op.size = 0 /\ op.address <= LAST_ADDRESS
\* at most one transaction, which carries the header only
HeaderOnly ==
    /\ Cardinality(Transactions(trace)) <= 1
    /\ \A i \in Transactions(trace) : DataOf(trace[i]) = << >>

\* C21 as stated: a write(address, buffer, 0) with address in [0, 0x7FFF]
\* returns success and changes no device byte, for every such address; it
\* issues at most one bus transaction, which carries no data byte.
C21_ZeroWriteSucceeds ==
    ZeroWriteDone => (result.ok /\ mem = opMem /\ HeaderOnly)

\* C21 amended: such a write changes no device byte and issues at most one
\* bus transaction, which carries no data byte; at a page-aligned address
\* (0x0000 included) it issues none and returns success, at any other
\* address it issues one and returns success exactly when that transaction
\* succeeds.
C21_ZeroWriteNoData ==
    ZeroWriteDone =>
        /\ mem = opMem
        /\ HeaderOnly
        /\ result.ok <=> FailedTx(trace) = {}
        /\ (op.address % PAGE_SIZE = 0) <=> (trace = << >>)

\* in strict mode, after an earlier write, write(0x017D, buffer, 0) sent the
\* two header bytes alone, returned true and left the device as it was
C21_Witness ==
    /\ safe_mode /\ ZeroWriteDone /\ result.ok
    /\ op.address = 381
    /\ Transactions(trace) = {1}
    /\ trace[1].payload = <<1, 125>>
    /\ DOMAIN mem # {}
    /\ mem = opMem

====
